---- MODULE Spec2Model ----
(***************************************************************************)
(* A model of the page scripts of aktiv-html:                              *)
(*   - the testimonial carousel (class TestimonialSlider): the transition  *)
(*     lock, the settle timeout and the autoplay interval timer;           *)
(*   - the href rewriter (transformHref), in its two shipped variants.     *)
(* The carousel is a state machine driven by the browser's event loop:     *)
(* every handler runs to completion, so one action is one handler.         *)
(***************************************************************************)
EXTENDS Integers, Sequences, FiniteSets, TLC

(***************************************************************************)
(* Bounds of the model.                                                    *)
(***************************************************************************)
\* the largest number of .testimonial-slide elements on the page
MaxSlides == 3
\* the number of distinct timer handles the browser may hand out
MaxTimers == 3
\* the largest number of settle timeouts the model lets pile up
MaxPending == 3
\* the number of fragments an input href is built from
MaxParts == 4
\* the number of times transformHref is applied to its own result
MaxCalls == 2
\* the number of times fixAllHrefs runs on a page
MaxScans == 2

VARIABLES
  \* ---- TestimonialSlider fields
  totalSlides,       \* this.totalSlides = this.slides.length
  currentSlide,      \* this.currentSlide
  isTransitioning,   \* this.isTransitioning
  autoplayInterval,  \* this.autoplayInterval: a timer handle, or Null
  \* ---- the DOM the slider writes
  slideClasses,      \* slide index -> its opacity classes
  buttons,           \* the buttons present on the page -> their classes
  \* ---- the browser's timers
  settleTimeouts,    \* number of pending setTimeout(release, clickDelay)
  liveIntervals,     \* handles of the active setInterval timers
  \* ---- observation (history) variables, written by no handler
  lastOp,            \* the handler that ran last
  released,          \* the lock was released and no manual call came since
  navLog,            \* the last accepted navigations, newest last
  \* ---- the carousel's timers on a clock (milliseconds)
  settleDue,         \* time left to each pending settle timeout
  tickDue,           \* time left to the next tick of each interval timer
  sinceAccept,       \* observed: time since a manual call was last accepted
  lockBy,            \* observed: what took the lock ("manual", "tick")
  tickCount,         \* observed: ticks fired so far, modulo totalSlides
  autoOnly,          \* observed: no manual call, no pause or start so far
  \* ---- the href rewriter
  variant,           \* which rewriter script the page loads
  href,              \* the href attribute of a link
  hrefLog,           \* the successive results of transformHref on it
  scanLog,           \* what each run of fixAllHrefs did to the link
  \* ---- the navigation bar: drawer
  mobileDrawer,      \* class list of #mobile-drawer
  drawerBackdrop,    \* class list of #drawer-backdrop
  bodyOverflow,      \* document.body.style.overflow
  line1, line2, line3,  \* style.transform, style.opacity, style.transform
  \* ---- the navigation bar: scroll
  scrollY,           \* window.scrollY
  scrollPending,     \* a scroll event is waiting to be dispatched
  lastScrollY,
  ticking,
  frames,            \* updateNavbar callbacks requested and not yet run
  navbar,            \* class list of #navbar; hasNavbar: it is on the page
  hasNavbar,
  \* ---- observers of the navigation bar
  navOp,             \* the handler that ran last
  navPrev,           \* the handler that ran before it
  closeCalled,       \* the last handler called closeDrawer()
  \* ---- the file upload widget
  maxSizeAttr,       \* uploadInput.dataset.maxSize (<<>>: absent or empty)
  allowedTypes,      \* JSON.parse(uploadInput.dataset.allowedTypes || "[]")
  disabled,          \* uploadInput.disabled
  inputFiles,        \* uploadInput.files
  filenameText,      \* filenameSpan.textContent
  uploadContainer,   \* class list of the container
  dialogOpen,        \* the file dialog is open
  \* ---- observers of the file upload widget
  hovering,          \* a drag is over the container
  upOp,              \* the listener that ran last
  upVia,             \* where the last change event came from
  lastPicked,        \* file and verdict of the last change event of the picker
  lastDropped        \* file and verdict of the last change event of a drop

carVars == <<totalSlides, currentSlide, isTransitioning, autoplayInterval,
             slideClasses, buttons, settleTimeouts, liveIntervals>>
obsVars == <<lastOp, released, navLog>>
hrefVars == <<variant, href, hrefLog, scanLog>>
timeVars == <<settleDue, tickDue, sinceAccept, lockBy, tickCount, autoOnly>>
\* what the carousel's handlers leave alone, on the clock and off it
drawerVars == <<mobileDrawer, drawerBackdrop, bodyOverflow, line1, line2, line3>>
scrollVars == <<scrollY, scrollPending, lastScrollY, ticking, frames, navbar,
                hasNavbar>>
navObs == <<navOp, navPrev, closeCalled>>
navVars == <<drawerVars, scrollVars, navObs>>
upState == <<inputFiles, filenameText, uploadContainer, dialogOpen>>
upConfig == <<maxSizeAttr, allowedTypes, disabled>>
upObs == <<hovering, upOp, upVia, lastPicked, lastDropped>>
upVars == <<upConfig, upState, upObs>>
offTimed == <<hrefVars, navVars, upVars>>
offCarousel == <<timeVars, offTimed>>
\* what the href rewriter leaves alone
offHref == <<carVars, obsVars, timeVars, navVars, upVars>>
\* what the navigation bar leaves alone
offNav == <<carVars, obsVars, timeVars, hrefVars, upVars>>
\* what the file upload widget leaves alone
offUpload == <<carVars, obsVars, timeVars, hrefVars, navVars>>
vars == <<carVars, obsVars, timeVars, hrefVars, navVars, upVars>>

Null == 0

\* classes toggled on the slides (lines 80-87)
OpacityClasses == {"opacity-0", "opacity-100"}
\* classes toggled on the buttons (lines 123-131, 140-148)
DisabledClasses == {"opacity-50", "cursor-not-allowed", "pointer-events-none"}

Buttons == {"prev", "next"}

(***************************************************************************)
(* TestimonialSlider                                                       *)
(***************************************************************************)

\* disableButtons(): each button that exists gets the three classes
DisableButtons == [b \in DOMAIN buttons |-> buttons[b] \cup DisabledClasses]

\* enableButtons() leaving pointer-events-none on the buttons
EnableButtonsKeepsOne ==
  [b \in DOMAIN buttons |->
     buttons[b] \ {"opacity-50", "cursor-not-allowed"}]

\* enableButtons(): each button that exists loses the three classes
EnableButtons == [b \in DOMAIN buttons |-> buttons[b] \ DisabledClasses]

\* The slides after showSlide's first class pass (lines 80-83): all hidden
HiddenSlides ==
  [s \in DOMAIN slideClasses |->
     (slideClasses[s] \ {"opacity-100"}) \cup {"opacity-0"}]

\* showSlide's second class pass leaving the other slides as they were
ShownSlidesNoHide(index) ==
  [slideClasses EXCEPT ![index] = (@ \ {"opacity-0"}) \cup {"opacity-100"}]

\* The slides after showSlide's two class passes: all hidden, then `index' shown
ShownSlides(index) ==
  [HiddenSlides EXCEPT ![index] = (@ \ {"opacity-0"}) \cup {"opacity-100"}]

\* this.slides[index] is an element (not undefined)
IsSlide(index) == index \in 0..(totalSlides - 1)

\* showSlide(index) with the guard on isTransitioning left out
ShowSlideNoGuard(index) ==
  /\ settleTimeouts < MaxPending
  /\ isTransitioning' = TRUE
  /\ buttons' = DisableButtons
  /\ slideClasses' = ShownSlides(index)
  /\ currentSlide' = index
  /\ settleTimeouts' = settleTimeouts + 1
  /\ UNCHANGED <<totalSlides, autoplayInterval, liveIntervals>>

\* showSlide(index) scheduling no release of the lock
ShowSlideNoTimeout(index) ==
  IF isTransitioning
  THEN UNCHANGED carVars
  ELSE /\ isTransitioning' = TRUE
       /\ buttons' = DisableButtons
       /\ slideClasses' = ShownSlides(index)
       /\ currentSlide' = index
       /\ UNCHANGED <<totalSlides, autoplayInterval, liveIntervals,
                      settleTimeouts>>

\* showSlide(index). When slides[index] is undefined, line 86 throws a
\* TypeError: the lock is taken, the buttons are disabled and the slides are
\* hidden by then; lines 87-96 (the index, the setTimeout) do not run.
ShowSlide(index) ==
  IF isTransitioning
  THEN UNCHANGED carVars
  ELSE IF IsSlide(index)
  THEN /\ isTransitioning' = TRUE
       /\ buttons' = DisableButtons
       /\ slideClasses' = ShownSlides(index)
       /\ currentSlide' = index
       /\ settleTimeouts' = settleTimeouts + 1
       /\ UNCHANGED <<totalSlides, autoplayInterval, liveIntervals>>
  ELSE /\ isTransitioning' = TRUE
       /\ buttons' = DisableButtons
       /\ slideClasses' = HiddenSlides
       /\ UNCHANGED <<totalSlides, currentSlide, autoplayInterval,
                      liveIntervals, settleTimeouts>>

\* NaN, the result of x % 0 in JavaScript: it is the index of no slide
NaN == -1000

\* nextSlide's index with the wrap left out
NextIndexNoWrap == currentSlide + 1

\* nextSlide's index: (currentSlide + 1) % totalSlides
NextIndex ==
  IF totalSlides = 0 THEN NaN ELSE (currentSlide + 1) % totalSlides

\* prevSlide's index with the "+ totalSlides" left out (JS % keeps the sign)
PrevIndexNoAdd ==
  IF currentSlide - 1 < 0 THEN currentSlide - 1
  ELSE (currentSlide - 1) % totalSlides

\* prevSlide's index: (currentSlide - 1 + totalSlides) % totalSlides
PrevIndex ==
  IF totalSlides = 0 THEN NaN
  ELSE (currentSlide - 1 + totalSlides) % totalSlides

\* nextSlide()
NextSlide == ShowSlide(NextIndex)

\* prevSlide()
PrevSlide == ShowSlide(PrevIndex)

\* pauseAutoplay() forgetting the handle without clearing the timer
PauseAutoplayNoClear(live) ==
  [handle |-> Null, live |-> live]

\* pauseAutoplay(): the handle and the active timers it leaves
PauseAutoplay(live) ==
  IF autoplayInterval # Null
  THEN [handle |-> Null, live |-> live \ {autoplayInterval}]
  ELSE [handle |-> autoplayInterval, live |-> live]

\* startAutoplay() without the pauseAutoplay() it begins with
StartAutoplayNoPause ==
  /\ \E id \in (1..MaxTimers) \ liveIntervals :
        /\ autoplayInterval' = id
        /\ liveIntervals' = liveIntervals \cup {id}
  /\ UNCHANGED <<totalSlides, currentSlide, isTransitioning, slideClasses,
                 buttons, settleTimeouts>>

\* startAutoplay(): pauseAutoplay(), then setInterval, whose handle is a
\* positive integer that names no active timer
StartAutoplay ==
  /\ LET paused == PauseAutoplay(liveIntervals)
     IN  \E id \in (1..MaxTimers) \ paused.live :
           /\ autoplayInterval' = id
           /\ liveIntervals' = paused.live \cup {id}
  /\ UNCHANGED <<totalSlides, currentSlide, isTransitioning, slideClasses,
                 buttons, settleTimeouts>>

\* the settle callback consuming the timeout and keeping the lock
ReleaseKeepsLock ==
  /\ UNCHANGED <<isTransitioning, buttons>>

\* the callback of showSlide's setTimeout (lines 93-96)
Release ==
  /\ isTransitioning' = FALSE
  /\ buttons' = EnableButtons

(***************************************************************************)
(* The observers: what a test harness would record.                        *)
(***************************************************************************)
NavOps == {"nextSlide", "prevSlide", "tick"}
ManualOps == {"nextSlide", "prevSlide"}

\* the log keeps the newest MaxSlides accepted navigations
Logged(op) ==
  LET e == [op |-> op, from |-> currentSlide]
      l == Append(navLog, e)
  IN  IF Len(l) > MaxSlides THEN Tail(l) ELSE l

\* a navigation request: accepted when it arrives in Idle
Observe(op, kind) ==
  /\ lastOp' = op
  /\ navLog' = IF isTransitioning THEN navLog ELSE Logged(kind)
  /\ released' = IF op \in ManualOps THEN FALSE ELSE released

(***************************************************************************)
(* The events of the carousel page                                         *)
(***************************************************************************)
\* a call of nextSlide(): the next button's click listener (line 51)
CallNextSlide ==
  /\ NextSlide
  /\ Observe("nextSlide", "next")
  /\ UNCHANGED offCarousel

\* a call of prevSlide(): the prev button's click listener (line 50)
CallPrevSlide ==
  /\ PrevSlide
  /\ Observe("prevSlide", "prev")
  /\ UNCHANGED offCarousel

\* one firing of an active interval timer (lines 158-163)
AutoplayTick ==
  /\ \E id \in liveIntervals :
       IF ~isTransitioning THEN NextSlide ELSE UNCHANGED carVars
  /\ Observe("tick", "next")
  /\ UNCHANGED offCarousel

\* pauseAutoplay() clearing the settle timeout along with the interval
CallPauseAutoplayClearsAll ==
  /\ LET paused == PauseAutoplay(liveIntervals)
     IN  /\ autoplayInterval' = paused.handle
         /\ liveIntervals' = paused.live
  /\ settleTimeouts' = 0
  /\ UNCHANGED <<totalSlides, currentSlide, isTransitioning, slideClasses,
                 buttons>>
  /\ lastOp' = "pauseAutoplay"
  /\ UNCHANGED <<released, navLog, offCarousel>>

\* mouseenter on the container, or a direct pauseAutoplay()
CallPauseAutoplay ==
  /\ LET paused == PauseAutoplay(liveIntervals)
     IN  /\ autoplayInterval' = paused.handle
         /\ liveIntervals' = paused.live
  /\ UNCHANGED <<totalSlides, currentSlide, isTransitioning, slideClasses,
                 buttons, settleTimeouts>>
  /\ lastOp' = "pauseAutoplay"
  /\ UNCHANGED <<released, navLog, offCarousel>>

\* mouseleave on the container, or a direct startAutoplay()
CallStartAutoplay ==
  /\ StartAutoplay
  /\ lastOp' = "startAutoplay"
  /\ UNCHANGED <<released, navLog, offCarousel>>

\* restartAutoplay()
CallRestartAutoplay ==
  /\ StartAutoplay
  /\ lastOp' = "restartAutoplay"
  /\ UNCHANGED <<released, navLog, offCarousel>>

\* a pending settle timeout fires
SettleFire ==
  /\ settleTimeouts > 0
  /\ settleTimeouts' = settleTimeouts - 1
  /\ Release
  /\ UNCHANGED <<totalSlides, currentSlide, autoplayInterval, slideClasses,
                 liveIntervals>>
  /\ lastOp' = "settle"
  /\ released' = TRUE
  /\ UNCHANGED <<navLog, offCarousel>>

\* the state after `new TestimonialSlider()': the constructor, then init()
\* and its startAutoplay(). The page's markup is not part of the scripts:
\* any number of slides from 1 to MaxSlides, any opacity marking of them,
\* either button present or not, no button marked disabled.
ConstructedAt(n, first) ==
  /\ totalSlides = n
  /\ currentSlide = first
  /\ isTransitioning = FALSE
  /\ autoplayInterval \in 1..MaxTimers
  /\ liveIntervals = {autoplayInterval}
  /\ settleTimeouts = 0
  /\ slideClasses \in [0..(totalSlides - 1) -> SUBSET OpacityClasses]
  /\ \E present \in SUBSET Buttons : buttons = [b \in present |-> {}]
  /\ lastOp = "init"
  /\ released = FALSE
  /\ navLog = <<>>

\* the constructor: this.currentSlide = 0 (line 33)
Constructed(n) == ConstructedAt(n, 0)

\* a slider whose index starts at 1
CarouselInitFromOne == \E n \in 1..MaxSlides : ConstructedAt(n, 1)

\* a page with at least one slide
CarouselInit == \E n \in 1..MaxSlides : Constructed(n)

\* a page with any number of slides, none included: the constructor takes
\* whatever querySelectorAll returns
AnyCarouselInit == \E n \in 0..MaxSlides : Constructed(n)

\* the clock is not watched
NoClock ==
  /\ settleDue = {}
  /\ tickDue = {}
  /\ sinceAccept = 0
  /\ lockBy = "none"
  /\ tickCount = 0
  /\ autoOnly = TRUE

HrefIdle ==
  /\ variant = "none"
  /\ href = <<>>
  /\ hrefLog = <<>>
  /\ scanLog = <<>>

\* a page without the navigation bar script
NavIdle ==
  /\ mobileDrawer = {}
  /\ drawerBackdrop = {}
  /\ bodyOverflow = ""
  /\ line1 = ""
  /\ line2 = ""
  /\ line3 = ""
  /\ scrollY = 0
  /\ scrollPending = FALSE
  /\ lastScrollY = 0
  /\ ticking = FALSE
  /\ frames = 0
  /\ navbar = {}
  /\ hasNavbar = FALSE
  /\ navOp = "none"
  /\ navPrev = "none"
  /\ closeCalled = FALSE

NoFile == [name |-> "", size |-> 0, type |-> ""]
NoEvent == [file |-> NoFile, verdict |-> "none"]

\* a page without a file input
UploadIdle ==
  /\ maxSizeAttr = <<>>
  /\ allowedTypes = <<>>
  /\ disabled = FALSE
  /\ inputFiles = <<>>
  /\ filenameText = ""
  /\ uploadContainer = {}
  /\ dialogOpen = FALSE
  /\ hovering = FALSE
  /\ upOp = "none"
  /\ upVia = "none"
  /\ lastPicked = NoEvent
  /\ lastDropped = NoEvent

\* the other scripts are not on the page
OthersIdle == HrefIdle /\ NavIdle /\ UploadIdle

Init == CarouselInit /\ NoClock /\ OthersIdle

Next ==
  \/ CallNextSlide
  \/ CallPrevSlide
  \/ AutoplayTick
  \/ CallPauseAutoplay
  \/ CallStartAutoplay
  \/ CallRestartAutoplay
  \/ SettleFire

Spec == Init /\ [][Next]_vars

\* the browser runs a timeout whose delay has elapsed
FairSpec == Spec /\ WF_vars(SettleFire)

\* the slider on a page that may have no slide at all
PageInit == AnyCarouselInit /\ NoClock /\ OthersIdle
PageSpec == PageInit /\ [][Next]_vars

(***************************************************************************)
(* The carousel on a clock. Time is in milliseconds and passes in steps of *)
(* the greatest common divisor of the two delays. A timer runs when it is  *)
(* due: time does not pass over a due timer. Two timers due at the same    *)
(* instant run in either order.                                            *)
(***************************************************************************)
\* this.autoplayDelay
autoplayDelay == 3000

\* a settle delay one step longer than the autoplay interval
clickDelayLong == autoplayDelay + 200

\* this.clickDelay
clickDelay == 800

RECURSIVE GCD(_, _)
GCD(a, b) == IF b = 0 THEN a ELSE GCD(b, a % b)

TimeStep == GCD(autoplayDelay, clickDelay)

\* sinceAccept stops counting one step past the settle delay
LongAgo == clickDelay + TimeStep

\* the observers of a navigation request by `who': a showSlide that called
\* setTimeout(..., clickDelay) started a timer and took the lock
Armed(who) ==
  IF settleTimeouts' > settleTimeouts
  THEN /\ settleDue' = settleDue \cup {clickDelay}
       /\ lockBy' = who
       /\ sinceAccept' = IF who = "manual" THEN 0 ELSE sinceAccept
  ELSE UNCHANGED <<settleDue, lockBy, sinceAccept>>

\* nextSlide() at some instant
TimedCallNextSlide ==
  /\ NextSlide
  /\ Observe("nextSlide", "next")
  /\ Armed("manual")
  /\ autoOnly' = FALSE
  /\ UNCHANGED <<tickDue, tickCount, offTimed>>

\* prevSlide() at some instant
TimedCallPrevSlide ==
  /\ PrevSlide
  /\ Observe("prevSlide", "prev")
  /\ Armed("manual")
  /\ autoOnly' = FALSE
  /\ UNCHANGED <<tickDue, tickCount, offTimed>>

\* the interval timer is due: its callback runs, the next tick is
\* autoplayDelay later
TimedAutoplayTick ==
  /\ 0 \in tickDue
  /\ liveIntervals # {}
  /\ IF ~isTransitioning THEN NextSlide ELSE UNCHANGED carVars
  /\ Observe("tick", "next")
  /\ Armed("tick")
  /\ tickDue' = (tickDue \ {0}) \cup {autoplayDelay}
  /\ tickCount' = (tickCount + 1) % totalSlides
  /\ UNCHANGED <<autoOnly, offTimed>>

\* the settle timeout is due: its callback runs
TimedSettleFire ==
  /\ 0 \in settleDue
  /\ settleTimeouts > 0
  /\ settleTimeouts' = settleTimeouts - 1
  /\ Release
  /\ UNCHANGED <<totalSlides, currentSlide, autoplayInterval, slideClasses,
                 liveIntervals>>
  /\ lastOp' = "settle"
  /\ released' = TRUE
  /\ settleDue' = settleDue \ {0}
  /\ lockBy' = "none"
  /\ UNCHANGED <<navLog, tickDue, sinceAccept, tickCount, autoOnly, offTimed>>

\* pauseAutoplay() at some instant (mouseenter)
TimedPauseAutoplay ==
  /\ LET paused == PauseAutoplay(liveIntervals)
     IN  /\ autoplayInterval' = paused.handle
         /\ liveIntervals' = paused.live
         /\ tickDue' = IF paused.live = {} THEN {} ELSE tickDue
  /\ UNCHANGED <<totalSlides, currentSlide, isTransitioning, slideClasses,
                 buttons, settleTimeouts>>
  /\ lastOp' = "pauseAutoplay"
  /\ autoOnly' = FALSE
  /\ UNCHANGED <<released, navLog, settleDue, sinceAccept, lockBy, tickCount,
                 offTimed>>

\* startAutoplay() at some instant (mouseleave, restartAutoplay)
TimedStartAutoplay ==
  /\ StartAutoplay
  /\ tickDue' = {autoplayDelay}
  /\ lastOp' = "startAutoplay"
  /\ autoOnly' = FALSE
  /\ UNCHANGED <<released, navLog, settleDue, sinceAccept, lockBy, tickCount,
                 offTimed>>

\* TimeStep milliseconds pass, no timer being due
Advance ==
  /\ 0 \notin settleDue \cup tickDue
  /\ settleDue' = {d - TimeStep : d \in settleDue}
  /\ tickDue' = {d - TimeStep : d \in tickDue}
  /\ sinceAccept' = IF sinceAccept + TimeStep > LongAgo
                    THEN LongAgo ELSE sinceAccept + TimeStep
  /\ lastOp' = "advance"
  /\ UNCHANGED <<carVars, released, navLog, lockBy, tickCount, autoOnly,
                 offTimed>>

\* the slider just constructed on a page with both buttons and the first
\* slide shown; the interval timer was started at time 0
TimedInit ==
  /\ \E n \in 1..MaxSlides : totalSlides = n
  /\ currentSlide = 0
  /\ isTransitioning = FALSE
  /\ autoplayInterval = 1
  /\ liveIntervals = {1}
  /\ settleTimeouts = 0
  /\ slideClasses = [s \in 0..(totalSlides - 1) |->
                       IF s = 0 THEN {"opacity-100"} ELSE {"opacity-0"}]
  /\ buttons = [b \in Buttons |-> {}]
  /\ lastOp = "init"
  /\ released = FALSE
  /\ navLog = <<>>
  /\ settleDue = {}
  /\ tickDue = {autoplayDelay}
  /\ sinceAccept = LongAgo
  /\ lockBy = "none"
  /\ tickCount = 0
  /\ autoOnly = TRUE
  /\ OthersIdle

TimedNext ==
  \/ TimedCallNextSlide
  \/ TimedCallPrevSlide
  \/ TimedAutoplayTick
  \/ TimedSettleFire
  \/ TimedPauseAutoplay
  \/ TimedStartAutoplay
  \/ Advance

TimedSpec == TimedInit /\ [][TimedNext]_vars

(***************************************************************************)
(* The href rewriter. A string is the sequence of its characters; indices  *)
(* are JavaScript's (from 0).                                              *)
(***************************************************************************)
\* ".html"
DotHtml == <<".", "h", "t", "m", "l">>
\* "/index.html"
IndexHtml == <<"/", "i", "n", "d", "e", "x", ".", "h", "t", "m", "l">>
\* "/src/pages", the path fix-href.js compares with
SrcPages == <<"/", "s", "r", "c", "/", "p", "a", "g", "e", "s">>
\* BASE_PATH = "/aktiv/src/pages", the configured path of the second script
BASE_PATH == <<"/", "a", "k", "t", "i", "v">> \o SrcPages

\* String.prototype.includes
Includes(s, sub) ==
  \E i \in 0..(Len(s) - Len(sub)) : SubSeq(s, i + 1, i + Len(sub)) = sub

\* String.prototype.indexOf for one character: the first place, or -1
IndexOf(s, c) ==
  IF \E i \in 1..Len(s) : s[i] = c
  THEN (CHOOSE i \in 1..Len(s) :
          /\ s[i] = c
          /\ \A j \in 1..(i - 1) : s[j] # c) - 1
  ELSE -1

\* String.prototype.lastIndexOf for one character
LastIndexOf(s, c) ==
  IF \E i \in 1..Len(s) : s[i] = c
  THEN (CHOOSE i \in 1..Len(s) :
          /\ s[i] = c
          /\ \A j \in (i + 1)..Len(s) : s[j] # c) - 1
  ELSE -1

\* String.prototype.substring(from, to)
Substring(s, from, to) == SubSeq(s, from + 1, to)

\* the body of transformHref for the base path bp, splitting at the LAST '#'
TransformAtLastHash(h, bp) ==
  IF Includes(h, DotHtml) THEN h
  ELSE LET hashIndex == LastIndexOf(h, "#")
       IN  IF hashIndex # -1
           THEN LET beforeHash == Substring(h, 0, hashIndex)
                    afterHash == Substring(h, hashIndex, Len(h))
                IN  IF beforeHash = bp
                    THEN bp \o IndexHtml \o afterHash
                    ELSE beforeHash \o DotHtml \o afterHash
           ELSE IF h = bp THEN bp \o IndexHtml ELSE h \o DotHtml

\* the body of transformHref for the base path bp, the base path itself
\* rewritten to bp + "/index" with no extension
TransformIndexNoExt(h, bp) ==
  IF Includes(h, DotHtml) THEN h
  ELSE LET hashIndex == IndexOf(h, "#")
       IN  IF hashIndex # -1
           THEN LET beforeHash == Substring(h, 0, hashIndex)
                    afterHash == Substring(h, hashIndex, Len(h))
                IN  IF beforeHash = bp
                    THEN bp \o SubSeq(IndexHtml, 1, 6) \o afterHash
                    ELSE beforeHash \o DotHtml \o afterHash
           ELSE IF h = bp THEN bp \o SubSeq(IndexHtml, 1, 6) ELSE h \o DotHtml

\* the body of transformHref in the script with the BASE_PATH constant, the
\* constant being bp
TransformBody(h, bp) ==
  IF Includes(h, DotHtml) THEN h
  ELSE LET hashIndex == IndexOf(h, "#")
       IN  IF hashIndex # -1
           THEN LET beforeHash == Substring(h, 0, hashIndex)
                    afterHash == Substring(h, hashIndex, Len(h))
                IN  IF beforeHash = bp
                    THEN bp \o IndexHtml \o afterHash
                    ELSE beforeHash \o DotHtml \o afterHash
           ELSE IF h = bp THEN bp \o IndexHtml ELSE h \o DotHtml

\* "/src/pages/index.html", the literal of fix-href.js (lines 47 and 56)
SrcPagesIndexHtml ==
  <<"/", "s", "r", "c", "/", "p", "a", "g", "e", "s",
    "/", "i", "n", "d", "e", "x", ".", "h", "t", "m", "l">>

\* transformHref of fix-href.js comparing the whole href with "/src/pages"
\* in the hash branch too
TransformHrefSrcPagesWholeHref(h) ==
  IF Includes(h, DotHtml) THEN h
  ELSE LET hashIndex == IndexOf(h, "#")
       IN  IF hashIndex # -1
           THEN LET beforeHash == Substring(h, 0, hashIndex)
                    afterHash == Substring(h, hashIndex, Len(h))
                IN  IF h = SrcPages
                    THEN SrcPagesIndexHtml \o afterHash
                    ELSE beforeHash \o DotHtml \o afterHash
           ELSE IF h = SrcPages THEN SrcPagesIndexHtml ELSE h \o DotHtml

\* transformHref of fix-href.js, with its literals
TransformHrefSrcPages(h) ==
  IF Includes(h, DotHtml) THEN h
  ELSE LET hashIndex == IndexOf(h, "#")
       IN  IF hashIndex # -1
           THEN LET beforeHash == Substring(h, 0, hashIndex)
                    afterHash == Substring(h, hashIndex, Len(h))
                IN  IF beforeHash = SrcPages
                    THEN SrcPagesIndexHtml \o afterHash
                    ELSE beforeHash \o DotHtml \o afterHash
           ELSE IF h = SrcPages THEN SrcPagesIndexHtml ELSE h \o DotHtml

\* transformHref of the script with the BASE_PATH constant
TransformHref(h) == TransformBody(h, BASE_PATH)

Variants == {"src-pages", "base-path"}

\* window.transformHref of the script the page loads
WindowTransformHref(h) ==
  IF variant = "src-pages" THEN TransformHrefSrcPages(h) ELSE TransformHref(h)

\* the path the loaded script compares with
BasePathOf(v) == IF v = "src-pages" THEN SrcPages ELSE BASE_PATH

\* the fragments the input strings are built from
Fragments ==
  { SrcPages, BASE_PATH, <<"/", "x">>, <<"#">>, DotHtml,
    <<".", "h", "t", "m">>, <<"l">> }

\* the strings made of at most n fragments (the empty string among them)
RECURSIVE Inputs(_)
Inputs(n) ==
  IF n = 0 THEN {<<>>}
  ELSE LET shorter == Inputs(n - 1)
       IN  shorter \cup {s \o f : s \in shorter, f \in Fragments}

\* a page without the slider
NoCarousel ==
  /\ totalSlides = 1
  /\ currentSlide = 0
  /\ isTransitioning = FALSE
  /\ autoplayInterval = Null
  /\ liveIntervals = {}
  /\ settleTimeouts = 0
  /\ slideClasses = <<>>
  /\ buttons = <<>>
  /\ lastOp = "init"
  /\ released = FALSE
  /\ navLog = <<>>
  /\ NoClock

\* one of the two scripts is loaded; a string is about to be rewritten
HrefInit ==
  /\ NoCarousel
  /\ variant \in Variants
  /\ href \in Inputs(MaxParts)
  /\ hrefLog = <<href>>
  /\ scanLog = <<>>
  /\ NavIdle
  /\ UploadIdle

\* a call of window.transformHref on the last result
CallTransformHref ==
  /\ Len(hrefLog) <= MaxCalls
  /\ href' = WindowTransformHref(href)
  /\ hrefLog' = Append(hrefLog, href')
  /\ UNCHANGED <<variant, scanLog, offHref>>

HrefNext == CallTransformHref

HrefSpec == HrefInit /\ [][HrefNext]_vars

\* the attribute selector a[href^="prefix"]
StartsWith(s, prefix) ==
  /\ Len(s) >= Len(prefix)
  /\ SubSeq(s, 1, Len(prefix)) = prefix

\* the selector of fixAllHrefs in the loaded script
Selected(h) ==
  IF variant = "src-pages" THEN StartsWith(h, SrcPages)
  ELSE StartsWith(h, BASE_PATH)

\* fixAllHrefs' loop body writing the attribute without comparing
FixLinkAlwaysWrites(h) ==
  IF Selected(h)
  THEN [href |-> WindowTransformHref(h), wrote |-> TRUE]
  ELSE [href |-> h, wrote |-> FALSE]

\* fixAllHrefs' loop body on a link whose href is h: the attribute it leaves
\* and whether setAttribute was called
FixLink(h) ==
  IF Selected(h)
  THEN LET originalHref == h
           newHref == WindowTransformHref(originalHref)
       IN  IF originalHref # newHref
           THEN [href |-> newHref, wrote |-> TRUE]
           ELSE [href |-> originalHref, wrote |-> FALSE]
  ELSE [href |-> h, wrote |-> FALSE]

\* one run of fixAllHrefs (DOMContentLoaded, or window.fixAllHrefs) on a
\* page; the links are rewritten one by one, each on its own, and `href' is
\* any one of them
FixAllHrefs ==
  /\ Len(scanLog) < MaxScans
  /\ LET fixed == FixLink(href)
     IN  /\ href' = fixed.href
         /\ scanLog' = Append(scanLog, [before |-> href, after |-> fixed.href,
                                        wrote |-> fixed.wrote])
  /\ UNCHANGED <<variant, hrefLog, offHref>>

ScanNext == FixAllHrefs

ScanSpec == HrefInit /\ [][ScanNext]_vars

(***************************************************************************)
(* Properties of the href rewriter                                         *)

(***************************************************************************)
(* The navigation bar (navbar.js): the mobile drawer and the scroll-hide.  *)
(* The page has the elements the script requires; #navbar may be missing   *)
(* (it is only reached through ?.). The markup starts with the drawer      *)
(* closed, in the state closeDrawer() resets it to.                        *)
(***************************************************************************)
\* closeDrawer() without restoring body scrolling
CloseDrawerKeepsOverflow ==
  /\ mobileDrawer' = mobileDrawer \cup {"-translate-x-full"}
  /\ drawerBackdrop' = (drawerBackdrop \ {"opacity-100", "pointer-events-auto"})
                         \cup {"opacity-0", "pointer-events-none"}
  /\ bodyOverflow' = bodyOverflow
  /\ line1' = ""
  /\ line2' = ""
  /\ line3' = ""

\* requestTick() that requests a frame on every scroll event
RequestTickUnthrottled ==
  /\ frames' = frames + 1
  /\ ticking' = TRUE

\* the threshold in updateNavbar
Threshold == 50

OpenDrawer ==
  /\ mobileDrawer' = mobileDrawer \ {"-translate-x-full"}
  /\ drawerBackdrop' = (drawerBackdrop \ {"opacity-0", "pointer-events-none"})
                         \cup {"opacity-100", "pointer-events-auto"}
  /\ bodyOverflow' = "hidden"
  /\ line1' = "rotate(45deg) translate(5px, 5px)"
  /\ line2' = "0"
  /\ line3' = "rotate(-45deg) translate(7px, -6px)"

CloseDrawer ==
  /\ mobileDrawer' = mobileDrawer \cup {"-translate-x-full"}
  /\ drawerBackdrop' = (drawerBackdrop \ {"opacity-100", "pointer-events-auto"})
                         \cup {"opacity-0", "pointer-events-none"}
  /\ bodyOverflow' = ""
  /\ line1' = ""
  /\ line2' = ""
  /\ line3' = ""

\* observers: handler `op' ran; `called' says whether it called closeDrawer()
NavObserve(op, called) ==
  /\ navOp' = op
  /\ navPrev' = navOp
  /\ closeCalled' = called

\* click on #mobile-menu-button
ClickMenuButton ==
  /\ OpenDrawer
  /\ NavObserve("openDrawer", FALSE)
  /\ UNCHANGED <<scrollVars, offNav>>

\* click on #close-drawer-button, on the backdrop or on a link of the drawer
ClickClose ==
  /\ CloseDrawer
  /\ \E target \in {"close-drawer-button", "drawer-backdrop", "nav a"} :
       NavObserve("closeDrawer", TRUE)
  /\ UNCHANGED <<scrollVars, offNav>>

Keys == {"Escape", "Enter"}

\* the keydown listener
Keydown ==
  \E key \in Keys :
    /\ IF key = "Escape" /\ "-translate-x-full" \notin mobileDrawer
       THEN CloseDrawer /\ NavObserve("keydown", TRUE)
       ELSE UNCHANGED drawerVars /\ NavObserve("keydown", FALSE)
    /\ UNCHANGED <<scrollVars, offNav>>

\* the scroll positions the page takes
ScrollPositions == {0, Threshold - 1, Threshold, Threshold + 1, Threshold + 2}

\* the page is scrolled: the browser will dispatch a scroll event
ScrollMove ==
  /\ \E y \in ScrollPositions \ {scrollY} : scrollY' = y
  /\ scrollPending' = TRUE
  /\ NavObserve("move", FALSE)
  /\ UNCHANGED <<lastScrollY, ticking, frames, navbar, hasNavbar, drawerVars,
                 offNav>>

RequestTick ==
  IF ~ticking
  THEN /\ frames' = frames + 1
       /\ ticking' = TRUE
  ELSE UNCHANGED <<frames, ticking>>

\* the scroll listener runs
ScrollEvent ==
  /\ scrollPending
  /\ scrollPending' = FALSE
  /\ RequestTick
  /\ NavObserve("scroll", FALSE)
  /\ UNCHANGED <<scrollY, lastScrollY, navbar, hasNavbar, drawerVars, offNav>>

UpdateNavbar ==
  LET currentScrollY == scrollY
  IN  /\ navbar' = IF ~hasNavbar THEN navbar
                   ELSE IF currentScrollY > lastScrollY /\ currentScrollY > Threshold
                   THEN navbar \cup {"-translate-y-full"}
                   ELSE navbar \ {"-translate-y-full"}
      /\ lastScrollY' = currentScrollY
      /\ ticking' = FALSE

\* the browser runs a requested animation-frame callback
AnimationFrame ==
  /\ frames > 0
  /\ frames' = frames - 1
  /\ UpdateNavbar
  /\ NavObserve("updateNavbar", FALSE)
  /\ UNCHANGED <<scrollY, scrollPending, hasNavbar, drawerVars, offNav>>

\* the script has just run on its page
NavInit ==
  /\ NoCarousel
  /\ HrefIdle
  /\ UploadIdle
  /\ mobileDrawer = {"-translate-x-full"}
  /\ drawerBackdrop = {"opacity-0", "pointer-events-none"}
  /\ bodyOverflow = ""
  /\ line1 = ""
  /\ line2 = ""
  /\ line3 = ""
  /\ scrollY \in ScrollPositions
  /\ scrollPending = FALSE
  /\ lastScrollY = scrollY
  /\ ticking = FALSE
  /\ frames = 0
  /\ navbar = {}
  /\ hasNavbar \in BOOLEAN
  /\ navOp = "init"
  /\ navPrev = "init"
  /\ closeCalled = FALSE

NavNext ==
  \/ ClickMenuButton
  \/ ClickClose
  \/ Keydown
  \/ ScrollMove
  \/ ScrollEvent
  \/ AnimationFrame

NavSpec == NavInit /\ [][NavNext]_vars

\* the browser runs a requested animation-frame callback at the next frame
NavFairSpec == NavSpec /\ WF_vars(AnimationFrame)


(***************************************************************************)
(* The file upload widget (upload-file.js), for one file input that has    *)
(* its filename span and its container. Strings that are parsed are tuples *)
(* of characters. A file list holds up to two files.                       *)
(***************************************************************************)
MB == 1024 * 1024

DigitChars == {"0", "1", "2", "3", "4", "5", "6", "7", "8", "9"}
DigitValue(c) ==
  CASE c = "0" -> 0 [] c = "1" -> 1 [] c = "2" -> 2 [] c = "3" -> 3
    [] c = "4" -> 4 [] c = "5" -> 5 [] c = "6" -> 6 [] c = "7" -> 7
    [] c = "8" -> 8 [] c = "9" -> 9

RECURSIVE ParseDigits(_, _, _)
ParseDigits(s, i, acc) ==
  IF i > Len(s) \/ s[i] \notin DigitChars THEN acc
  ELSE ParseDigits(s, i + 1, acc * 10 + DigitValue(s[i]))

\* parseInt on a string without sign or leading blanks: the value of its
\* leading digits, NaN when it starts with none
ParseInt(s) ==
  IF s = <<>> \/ s[1] \notin DigitChars THEN NaN ELSE ParseDigits(s, 1, 0)

\* parseInt(uploadInput.dataset.maxSize || "5") * 1024 * 1024
MaxSize ==
  LET n == ParseInt(IF maxSizeAttr = <<>> THEN <<"5">> ELSE maxSizeAttr)
  IN  IF n = NaN THEN NaN ELSE n * 1024 * 1024

\* file.size > maxSize (false against NaN)
TooBig(file) == MaxSize # NaN /\ file.size > MaxSize

\* allowedTypes.length > 0 && !allowedTypes.includes(file.type)
TypeRefused(file) ==
  /\ Len(allowedTypes) > 0
  /\ ~\E i \in DOMAIN allowedTypes : allowedTypes[i] = file.type

\* the change listener with the type checked before the size
VerdictTypeFirst(file) ==
  IF file = NoFile THEN "nofile"
  ELSE IF TypeRefused(file) THEN "type"
  ELSE IF TooBig(file) THEN "size"
  ELSE "accepted"

\* the branch the change listener takes for e.target.files?.[0]
Verdict(file) ==
  IF file = NoFile THEN "nofile"
  ELSE IF TooBig(file) THEN "size"
  ELSE IF TypeRefused(file) THEN "type"
  ELSE "accepted"

Highlight == {"border-blue", "bg-blue/5"}

First(files) == IF Len(files) > 0 THEN files[1] ELSE NoFile

\* the change listener, the input holding `files' and the container having
\* `classes' when the event is dispatched
Change(files, classes, via) ==
  LET file == First(files)
      verdict == Verdict(file)
      event == [file |-> file, verdict |-> verdict]
  IN  /\ inputFiles' = IF verdict \in {"size", "type"} THEN <<>> ELSE files
      /\ filenameText' = IF verdict = "accepted" THEN file.name
                         ELSE filenameText
      /\ uploadContainer' = IF verdict = "accepted"
                            THEN classes \cup Highlight ELSE classes
      /\ upVia' = via
      /\ lastPicked' = IF via = "picker" THEN event ELSE lastPicked
      /\ lastDropped' = IF via = "drop" THEN event ELSE lastDropped

Sizes == {MB, MB + 1, 5 * MB, 5 * MB + 1}
Types == {"image/png", "application/pdf"}
NameOf(type) == IF type = "image/png" THEN "a.png" ELSE "b.pdf"
Files == {[name |-> NameOf(t), size |-> z, type |-> t] : z \in Sizes, t \in Types}
\* the second file of a list of two
Second == [name |-> "b.pdf", size |-> 5 * MB + 1, type |-> "application/pdf"]
FileLists == {<<>>} \cup {<<f>> : f \in Files} \cup {<<f, Second>> : f \in Files}

\* values of data-max-size: absent, "1", "1.5", "abc"
MaxSizeAttrs == {<<>>, <<"1">>, <<"1", ".", "5">>, <<"a", "b", "c">>}
AllowedTypeLists == {<<>>, <<"image/png">>}

\* the user closes the file dialog with a selection: the input takes it and
\* fires change
PickerChange ==
  /\ dialogOpen
  /\ dialogOpen' = FALSE
  /\ \E files \in FileLists : Change(files, uploadContainer, "picker")
  /\ upOp' = "change"
  /\ UNCHANGED <<hovering, upConfig, offUpload>>

DragOver ==
  /\ uploadContainer' = uploadContainer \cup Highlight
  /\ hovering' = TRUE
  /\ upOp' = "dragover"
  /\ UNCHANGED <<inputFiles, filenameText, dialogOpen, upVia, lastPicked,
                 lastDropped, upConfig, offUpload>>

DragLeave ==
  /\ hovering
  /\ uploadContainer' = uploadContainer \ Highlight
  /\ hovering' = FALSE
  /\ upOp' = "dragleave"
  /\ UNCHANGED <<inputFiles, filenameText, dialogOpen, upVia, lastPicked,
                 lastDropped, upConfig, offUpload>>

\* the drop listener, the change event it dispatches included
Drop ==
  /\ hovering
  /\ hovering' = FALSE
  /\ \E files \in FileLists :
       IF Len(files) > 0
       THEN Change(files, uploadContainer \ Highlight, "drop")
       ELSE /\ uploadContainer' = uploadContainer \ Highlight
            /\ UNCHANGED <<inputFiles, filenameText, upVia, lastPicked,
                           lastDropped>>
  /\ upOp' = "drop"
  /\ UNCHANGED <<dialogOpen, upConfig, offUpload>>

\* the click listener of the container: uploadInput.click() opens the dialog
ClickContainer ==
  /\ dialogOpen' = IF ~disabled THEN TRUE ELSE dialogOpen
  /\ upOp' = "click"
  /\ UNCHANGED <<inputFiles, filenameText, uploadContainer, hovering, upVia,
                 lastPicked, lastDropped, upConfig, offUpload>>

UploadInit ==
  /\ NoCarousel
  /\ HrefIdle
  /\ NavIdle
  /\ maxSizeAttr \in MaxSizeAttrs
  /\ allowedTypes \in AllowedTypeLists
  /\ disabled \in BOOLEAN
  /\ inputFiles = <<>>
  /\ filenameText = ""
  /\ uploadContainer = {}
  /\ dialogOpen = FALSE
  /\ hovering = FALSE
  /\ upOp = "init"
  /\ upVia = "none"
  /\ lastPicked = NoEvent
  /\ lastDropped = NoEvent

UploadNext ==
  \/ PickerChange
  \/ DragOver
  \/ DragLeave
  \/ Drop
  \/ ClickContainer

UploadSpec == UploadInit /\ [][UploadNext]_vars

(***************************************************************************)

\* s contains ".html": some suffix of s begins with it
RECURSIVE HasDotHtml(_)
HasDotHtml(s) ==
  IF Len(s) < 5 THEN FALSE
  ELSE \/ <<s[1], s[2], s[3], s[4], s[5]>> = DotHtml
       \/ HasDotHtml(Tail(s))

\* C9: transformHref is idempotent: its result contains ".html", and a second
\* call on the result returns the result.
C9_Idempotent ==
  Len(hrefLog) >= 3
    => /\ HasDotHtml(hrefLog[2])
       /\ hrefLog[3] = hrefLog[2]

\* the base path with two hashes was rewritten once, then left alone
C9_Witness ==
  /\ Len(hrefLog) = 3
  /\ hrefLog[1] = BasePathOf(variant) \o <<"#", "#">>
  /\ hrefLog[2] # hrefLog[1]
  /\ hrefLog[3] = hrefLog[2]

\* the part of s before its first '#'
RECURSIVE BeforePart(_)
BeforePart(s) ==
  IF s = <<>> \/ Head(s) = "#" THEN <<>>
  ELSE <<Head(s)>> \o BeforePart(Tail(s))

\* the part of s from its first '#' on, empty when s has none
RECURSIVE HashPart(_)
HashPart(s) ==
  IF s = <<>> THEN <<>>
  ELSE IF Head(s) = "#" THEN s
  ELSE HashPart(Tail(s))

\* the rules of the href rewriter, for the base path bp
Reference(s, bp) ==
  IF HasDotHtml(s) THEN s
  ELSE (IF BeforePart(s) = bp
        THEN bp \o <<"/", "i", "n", "d", "e", "x", ".", "h", "t", "m", "l">>
        ELSE BeforePart(s) \o <<".", "h", "t", "m", "l">>) \o HashPart(s)

\* "/src/pages/view-booking"
ViewBooking ==
  SrcPages \o <<"/", "v", "i", "e", "w", "-", "b", "o", "o", "k", "i", "n", "g">>

\* C10: transformHref returns what the rules give for the script's base path:
\* unchanged with ".html" in it, else split at the first '#', the part before
\* it rewritten (base path -> base path + "/index.html", else + ".html") and
\* the hash part kept; with "/src/pages" the documented examples come out.
C10_MatchesRules ==
  /\ Len(hrefLog) >= 2
       => hrefLog[2] = Reference(hrefLog[1], BasePathOf(variant))
  /\ variant = "src-pages" =>
       /\ WindowTransformHref(SrcPages) = SrcPages \o IndexHtml
       /\ WindowTransformHref(SrcPages \o <<"#", "w", "o", "r", "k">>)
            = SrcPages \o IndexHtml \o <<"#", "w", "o", "r", "k">>
       /\ WindowTransformHref(ViewBooking \o <<"#", "t", "e", "s", "t">>)
            = ViewBooking \o DotHtml \o <<"#", "t", "e", "s", "t">>
       /\ WindowTransformHref(ViewBooking) = ViewBooking \o DotHtml

\* a path under the base path with two hashes got its extension before the
\* first of them
C10_Witness ==
  /\ Len(hrefLog) >= 2
  /\ hrefLog[1] = BasePathOf(variant) \o <<"/", "x", "#", "#">>
  /\ hrefLog[2] = BasePathOf(variant) \o <<"/", "x">> \o DotHtml \o <<"#", "#">>


(***************************************************************************)
(* Properties of the carousel                                              *)
(***************************************************************************)

\* C1: at most one settle timeout is pending, isTransitioning is true exactly
\* while it is pending, and every step that changes currentSlide starts with
\* the lock free and ends with the lock taken (so currentSlide changes at
\* most once between two releases of the lock).
C1_OneTransitionInFlight ==
  /\ [](settleTimeouts <= 1 /\ (isTransitioning <=> settleTimeouts = 1))
  /\ [][currentSlide' # currentSlide
          => (~isTransitioning /\ isTransitioning')]_vars

\* a second call arrived while the one settle timeout of an accepted
\* transition to slide 2 was pending
C1_Witness ==
  /\ isTransitioning
  /\ settleTimeouts = 1
  /\ currentSlide = 2
  /\ lastOp = "prevSlide"
  /\ navLog # <<>>
  /\ navLog[Len(navLog)].op = "next"

\* C2: currentSlide is always an index of a slide: 0 <= currentSlide < N.
C2_IndexInRange ==
  /\ currentSlide \in Int
  /\ 0 <= currentSlide
  /\ currentSlide < totalSlides

\* nextSlide() was accepted on the last slide and wrapped to the first
C2_Witness ==
  /\ totalSlides = MaxSlides
  /\ navLog # <<>>
  /\ navLog[Len(navLog)] = [op |-> "next", from |-> MaxSlides - 1]
  /\ currentSlide = 0

\* C3: a nextSlide(), prevSlide() or autoplay tick that arrives while the lock
\* is held changes nothing of the carousel (index, lock, slide classes, button
\* classes, pending settle timeout, autoplay timer), and the index changes
\* only in a step that is itself a navigation arriving in Idle: the release
\* of the lock replays nothing.
C3_DroppedNotQueued ==
  /\ [][(lastOp' \in NavOps /\ isTransitioning) => UNCHANGED carVars]_vars
  /\ [][currentSlide' # currentSlide
          => (lastOp' \in NavOps /\ ~isTransitioning)]_vars
  /\ [][lastOp' = "settle"
          => UNCHANGED <<currentSlide, slideClasses>>]_vars

\* prevSlide() was dropped during the transition a nextSlide() started, the
\* lock was released since, and the index is still that nextSlide()'s target
C3_Witness ==
  /\ lastOp = "settle"
  /\ ~isTransitioning
  /\ released
  /\ Len(navLog) = 1
  /\ navLog[1] = [op |-> "next", from |-> 0]
  /\ currentSlide = 1

\* C4, as claimed: the lock is always released again, and the first
\* nextSlide()/prevSlide() issued after a release is accepted and changes
\* currentSlide.
C4_FirstCallAfterReleaseMoves ==
  /\ isTransitioning ~> ~isTransitioning
  /\ [][(lastOp' \in ManualOps /\ released)
          => (~isTransitioning /\ currentSlide' # currentSlide)]_vars

\* C4, amended: the lock is always released again; a nextSlide()/prevSlide()
\* issued while the lock is free is accepted: it takes the lock, schedules
\* the one settle timeout, and moves currentSlide to a different slide when
\* there are at least two slides.
C4_LockReleasedThenAccepts ==
  /\ isTransitioning ~> ~isTransitioning
  /\ [][(lastOp' \in ManualOps /\ ~isTransitioning)
          => /\ isTransitioning'
             /\ settleTimeouts' = 1
             /\ (totalSlides >= 2 => currentSlide' # currentSlide)
             /\ (totalSlides = 1 => currentSlide' = currentSlide)]_vars

\* a manual call was accepted right after a release of the lock, while the
\* autoplay was paused
C4_Witness ==
  /\ isTransitioning
  /\ lastOp \in ManualOps
  /\ Len(navLog) >= 2
  /\ liveIntervals = {}
  /\ ~released

\* C5: at most one interval timer is active, and one is active exactly when
\* autoplayInterval is non-null and is its handle.
C5_OneAutoplayTimer ==
  /\ Cardinality(liveIntervals) <= 1
  /\ liveIntervals = (IF autoplayInterval = Null THEN {} ELSE {autoplayInterval})

\* startAutoplay() ran again (restartAutoplay) with a timer already active
\* and handed out another handle
C5_Witness ==
  /\ lastOp = "restartAutoplay"
  /\ autoplayInterval = 2
  /\ liveIntervals = {2}

\* C6: pauseAutoplay() leaves no active timer; from then on, until
\* startAutoplay() runs, no timer is active, no tick fires and currentSlide
\* changes only by a manual nextSlide()/prevSlide(). pauseAutoplay() with no
\* active timer changes nothing.
C6_PausedMeansNoTicks ==
  /\ [][lastOp' = "pauseAutoplay"
          => /\ liveIntervals' = {}
             /\ autoplayInterval' = Null
             /\ UNCHANGED <<totalSlides, currentSlide, isTransitioning,
                            slideClasses, buttons, settleTimeouts>>]_vars
  /\ [][(lastOp' = "pauseAutoplay" /\ liveIntervals = {})
          => UNCHANGED carVars]_vars
  /\ [][(liveIntervals = {}
           /\ lastOp' \notin {"startAutoplay", "restartAutoplay"})
          => /\ liveIntervals' = {}
             /\ lastOp' # "tick"
             /\ (currentSlide' # currentSlide => lastOp' \in ManualOps)]_vars

\* while the autoplay was paused, a manual prevSlide() moved the carousel
C6_Witness ==
  /\ liveIntervals = {}
  /\ autoplayInterval = Null
  /\ lastOp = "prevSlide"
  /\ navLog # <<>>
  /\ navLog[Len(navLog)].op = "prev"
  /\ isTransitioning

\* the newest n entries of the log are all nextSlide() acceptances
LastAllNext(n) ==
  /\ Len(navLog) >= n
  /\ \A k \in (Len(navLog) - n + 1)..Len(navLog) : navLog[k].op = "next"

\* C7: a nextSlide() accepted at index i moves to i + 1, or to 0 from the last
\* slide; after N accepted nextSlide() in a row the carousel is back where
\* the run began.
C7_NextWraps ==
  /\ [][(lastOp' \in {"nextSlide", "tick"} /\ ~isTransitioning)
          => currentSlide' = (IF currentSlide = totalSlides - 1
                              THEN 0 ELSE currentSlide + 1)]_vars
  /\ [](LastAllNext(totalSlides)
          => currentSlide = navLog[Len(navLog) - totalSlides + 1].from)

\* three accepted nextSlide() in a row on three slides, begun at slide 1
C7_Witness ==
  /\ totalSlides = 3
  /\ LastAllNext(3)
  /\ navLog[1].from = 1
  /\ currentSlide = 1
  /\ lastOp = "nextSlide"

\* the newest two entries of the log are a nextSlide() and a prevSlide()
LastTwoOpposite ==
  /\ Len(navLog) >= 2
  /\ {navLog[Len(navLog) - 1].op, navLog[Len(navLog)].op} = {"next", "prev"}

\* C8: a prevSlide() accepted at index i moves to i - 1, or to N - 1 from
\* slide 0; an accepted prevSlide() after an accepted nextSlide(), or the
\* reverse, restores the index.
C8_PrevWraps ==
  /\ [][(lastOp' = "prevSlide" /\ ~isTransitioning)
          => currentSlide' = (IF currentSlide = 0
                              THEN totalSlides - 1 ELSE currentSlide - 1)]_vars
  /\ [](LastTwoOpposite => currentSlide = navLog[Len(navLog) - 1].from)

\* prevSlide() from slide 0 reached the last slide and a nextSlide() came back
C8_Witness ==
  /\ totalSlides = 3
  /\ Len(navLog) = 2
  /\ navLog[1] = [op |-> "prev", from |-> 0]
  /\ navLog[2] = [op |-> "next", from |-> 2]
  /\ currentSlide = 0

\* C11: with no slide on the page the constructor rejects the page, so the
\* slider never holds the lock with no settle timeout left to release it
\* (the state a navigation on an index modulo zero would leave).
C11_EmptyRejected ==
  totalSlides = 0 => ~(isTransitioning /\ settleTimeouts = 0)

\* C12: pauseAutoplay() changes nothing but the autoplay timer: the index,
\* the lock, the slide and button classes and the pending settle timeout stay,
\* and a transition it arrives in still ends with the lock released.
C12_PauseOnlyCancelsTimer ==
  /\ [][lastOp' = "pauseAutoplay"
          => UNCHANGED <<totalSlides, currentSlide, isTransitioning,
                         slideClasses, buttons, settleTimeouts>>]_vars
  /\ (isTransitioning /\ lastOp = "pauseAutoplay") ~> ~isTransitioning

\* pauseAutoplay() ran during a transition and cancelled the timer
C12_Witness ==
  /\ lastOp = "pauseAutoplay"
  /\ isTransitioning
  /\ settleTimeouts = 1
  /\ liveIntervals = {}
  /\ currentSlide = 1

\* C13: each button carries the three disabled classes while the lock is
\* held and none of them while it is free (the markup ships them enabled);
\* only an accepted navigation and the settle timeout change a button.
C13_ButtonsFollowLock ==
  /\ [](\A b \in DOMAIN buttons :
          /\ isTransitioning => DisabledClasses \subseteq buttons[b]
          /\ ~isTransitioning => buttons[b] \cap DisabledClasses = {})
  /\ [][buttons' # buttons
          => \/ (lastOp' \in NavOps /\ ~isTransitioning /\ isTransitioning')
             \/ (lastOp' = "settle" /\ isTransitioning /\ ~isTransitioning')]_vars

\* both buttons were disabled by a transition and enabled again by its end
C13_Witness ==
  /\ DOMAIN buttons = Buttons
  /\ lastOp = "settle"
  /\ ~isTransitioning
  /\ navLog # <<>>
  /\ \A b \in Buttons : buttons[b] = {}

\* C14: once a showSlide has been accepted, the slide at currentSlide is the
\* one visible slide (opacity-100, not opacity-0) and every other slide is
\* hidden (opacity-0, not opacity-100), whatever the slides' first marking.
C14_OneVisibleSlide ==
  navLog # <<>>
    => \A s \in 0..(totalSlides - 1) :
         slideClasses[s] = (IF s = currentSlide
                            THEN {"opacity-100"} ELSE {"opacity-0"})

\* on a single slide, nextSlide() then prevSlide() re-showed slide 0
C14_Witness ==
  /\ totalSlides = 1
  /\ Len(navLog) = 2
  /\ navLog[2].op = "prev"
  /\ slideClasses[0] = {"opacity-100"}

(***************************************************************************)
(* Properties of the page scan and of the two scripts                      *)
(***************************************************************************)

\* s begins with p
RECURSIVE HasPrefix(_, _)
HasPrefix(s, p) ==
  IF p = <<>> THEN TRUE
  ELSE IF s = <<>> THEN FALSE
  ELSE Head(s) = Head(p) /\ HasPrefix(Tail(s), Tail(p))

\* C15: fixAllHrefs writes a link's href only when it starts with the base
\* path and the rules change it; a href that does not start with the base
\* path or that contains ".html" is left as it is; a second run writes
\* nothing and leaves the link as the first run left it.
C15_ScanWritesOnce ==
  \A k \in 1..Len(scanLog) :
    LET r == scanLog[k]
        bp == BasePathOf(variant)
    IN  /\ r.wrote => /\ HasPrefix(r.before, bp)
                      /\ r.after = Reference(r.before, bp)
                      /\ r.after # r.before
        /\ ~r.wrote => r.after = r.before
        /\ (~HasPrefix(r.before, bp) \/ HasDotHtml(r.before))
             => (~r.wrote /\ r.after = r.before)
        /\ k >= 2 => (~r.wrote /\ r.after = scanLog[1].after)
        /\ k = Len(scanLog) => href = r.after

\* the base path with a hash was rewritten by the first run and not written
\* by the second
C15_Witness ==
  /\ Len(scanLog) = 2
  /\ scanLog[1].before = BasePathOf(variant) \o <<"#">>
  /\ scanLog[1].wrote
  /\ ~scanLog[2].wrote
  /\ href = BasePathOf(variant) \o IndexHtml \o <<"#">>

\* C16: the script with the BASE_PATH constant, the constant set to
\* "/src/pages", returns what fix-href.js returns; the two shipped scripts
\* return the same for every string whose part before the first '#' is
\* neither "/src/pages" nor "/aktiv/src/pages".
C16_SameFunction ==
  \A s \in {href} \cup {hrefLog[k] : k \in 1..Len(hrefLog)} :
    /\ TransformBody(s, SrcPages) = TransformHrefSrcPages(s)
    /\ BeforePart(s) \notin {SrcPages, BASE_PATH}
         => TransformHrefSrcPages(s) = TransformHref(s)

\* the scripts were compared on "/src/pages#" (the constant's own case) after
\* fix-href.js rewrote it
C16_Witness ==
  /\ variant = "src-pages"
  /\ Len(hrefLog) >= 2
  /\ hrefLog[1] = SrcPages \o <<"#">>
  /\ hrefLog[2] = SrcPagesIndexHtml \o <<"#">>

(***************************************************************************)
(* Properties of the carousel on the clock                                 *)
(***************************************************************************)

\* C17, as claimed: with autoplay alone no tick is skipped and after k ticks
\* currentSlide = k mod N; a tick is skipped only when a manual call was
\* accepted LESS than one settle delay before it, and a skipped tick leaves
\* the index at the manual call's target.
C17_SkippedOnlyWithinSettleDelay ==
  /\ [](autoOnly => currentSlide = tickCount)
  /\ [][(lastOp' = "tick" /\ autoOnly) => ~isTransitioning]_vars
  /\ [][(lastOp' = "tick" /\ isTransitioning)
          => /\ lockBy = "manual"
             /\ sinceAccept < clickDelay
             /\ currentSlide' = currentSlide]_vars

\* C17, amended: with autoplay alone no tick is skipped and after k ticks
\* currentSlide = k mod N; a tick is skipped only when a manual call was
\* accepted AT MOST one settle delay before it (its settle timeout has not
\* run yet), and a skipped tick leaves the index at the manual call's target.
C17_SkippedOnlyWhileSettling ==
  /\ [](autoOnly => currentSlide = tickCount)
  /\ [][(lastOp' = "tick" /\ autoOnly) => ~isTransitioning]_vars
  /\ [][(lastOp' = "tick" /\ isTransitioning)
          => /\ lockBy = "manual"
             /\ sinceAccept <= clickDelay
             /\ settleDue # {}
             /\ currentSlide' = currentSlide]_vars

\* a tick has just been skipped: it came exactly one settle delay after an
\* accepted manual call, whose settle timeout is due and has not run yet
C17_Witness ==
  /\ lastOp = "tick"
  /\ isTransitioning
  /\ lockBy = "manual"
  /\ sinceAccept = clickDelay
  /\ settleDue = {0}
  /\ Len(navLog) = 1

(***************************************************************************)
(* Properties of the navigation bar                                        *)
(***************************************************************************)
Hidden == "-translate-y-full" \in navbar

\* C18: at most one updateNavbar callback is pending, ticking is true exactly
\* while one is pending, a scroll event arriving with ticking false requests
\* exactly one callback (and none with ticking true), a pending callback
\* eventually runs, and when it runs the navbar is hidden exactly if the
\* scroll position is above both the threshold and the position recorded by
\* the previous callback.
C18_ScrollThrottle ==
  /\ [](frames <= 1 /\ (ticking <=> frames = 1))
  /\ [][navOp' = "scroll"
          => frames' = IF ticking THEN frames ELSE frames + 1]_vars
  /\ [][navOp' = "updateNavbar"
          => /\ lastScrollY' = scrollY
             /\ hasNavbar =>
                  (Hidden' <=> (scrollY > Threshold /\ scrollY > lastScrollY))]_vars
  /\ (frames > 0) ~> (frames = 0)

\* the callback requested by a scroll event has just run and hidden the
\* navbar, one pixel past the threshold
C18_Witness ==
  /\ navOp = "updateNavbar"
  /\ navPrev = "scroll"
  /\ Hidden
  /\ scrollY = Threshold + 1
  /\ frames = 0

DrawerVisible == "-translate-x-full" \notin mobileDrawer
BackdropVisible ==
  /\ {"opacity-100", "pointer-events-auto"} \subseteq drawerBackdrop
  /\ drawerBackdrop \cap {"opacity-0", "pointer-events-none"} = {}
BackdropHidden ==
  /\ {"opacity-0", "pointer-events-none"} \subseteq drawerBackdrop
  /\ drawerBackdrop \cap {"opacity-100", "pointer-events-auto"} = {}
XShape ==
  /\ line1 = "rotate(45deg) translate(5px, 5px)"
  /\ line2 = "0"
  /\ line3 = "rotate(-45deg) translate(7px, -6px)"
Hamburger == line1 = "" /\ line2 = "" /\ line3 = ""

\* C19: the drawer is visible exactly when the backdrop is visible, body
\* scrolling is disabled and the icon is an X (and when it is not visible the
\* backdrop is hidden, scrolling restored and the icon reset); the keydown
\* listener calls closeDrawer only with the drawer open; openDrawer repeated
\* and closeDrawer repeated leave the state unchanged.
C19_DrawerConsistent ==
  /\ [](IF DrawerVisible
        THEN BackdropVisible /\ bodyOverflow = "hidden" /\ XShape
        ELSE BackdropHidden /\ bodyOverflow = "" /\ Hamburger)
  /\ [][(navOp' = "keydown" /\ closeCalled') => DrawerVisible]_vars
  /\ [][(navOp = "openDrawer" /\ navOp' = "openDrawer")
          => drawerVars' = drawerVars]_vars
  /\ [][(navOp = "closeDrawer" /\ navOp' = "closeDrawer")
          => drawerVars' = drawerVars]_vars

\* the drawer was opened and Escape has just closed it
C19_Witness ==
  /\ navPrev = "openDrawer"
  /\ navOp = "keydown"
  /\ closeCalled
  /\ ~DrawerVisible
  /\ bodyOverflow = ""

(***************************************************************************)
(* Properties of the file upload widget                                    *)
(***************************************************************************)
\* the change event that has just been handled
LastChange == IF upVia = "picker" THEN lastPicked ELSE lastDropped

\* the limit the data-max-size attribute states, in bytes (default 5 MB)
StatedLimit ==
  CASE maxSizeAttr = <<>> -> 5 * MB
    [] maxSizeAttr = <<"1">> -> MB
    [] maxSizeAttr = <<"1", ".", "5">> -> MB + MB \div 2
\* the attribute states a number
LimitStated == maxSizeAttr # <<"a", "b", "c">>

Holds == Len(inputFiles) > 0

\* whenever the display shows a name, it is the name of the file the input holds
NameAgrees == filenameText # "" => (Holds /\ inputFiles[1].name = filenameText)

\* with no drag hovering, the container carries the highlight exactly when
\* the input holds a file
HighlightAgrees == ~hovering => ((Highlight \subseteq uploadContainer) <=> Holds)

\* after a rejection the display does not show a name while the input is empty
NoStaleName ==
  (upOp \in {"change", "drop"} /\ LastChange.verdict \in {"size", "type"})
    => filenameText = ""

\* C21: after any sequence of picker selections, drops, dragover and
\* dragleave events, a name shown by the filename display is the name of the
\* file the input holds, and with no drag hovering the container carries the
\* highlight exactly when the input holds a file; in particular no earlier
\* name stays on display after a later file is rejected.
C21_UIAgreesWithInput == NameAgrees /\ HighlightAgrees /\ NoStaleName

====
